---------------------------- MODULE Spec2Model ----------------------------
(***************************************************************************)
(* Model of the todo REST API of backend/index.ts (kept in                 *)
(* src/backend/README.md, lines 354-492): one SQLite table `todos` and the *)
(* route handlers of Bun.serve.  Requests are handled one at a time: every *)
(* action is one whole request, from routing to the response.              *)
(***************************************************************************)
EXTENDS Integers, Sequences, FiniteSets, TLC

(* ------------------------------ bounds -------------------------------- *)

\* Number of todos created in a run.
MaxTodos == 3

\* Number of milliseconds the wall clock advances in a run.
MaxClock == 2

\* Clock reading (ms) when the server starts; the run crosses a digit carry.
Epoch == 8

\* Number of handlers that wait for their request body at one time.
MaxPending == 1

(* --------------------------- JSON values ------------------------------ *)

\* A JSON (or JS) value as the handlers see it: its typeof-relevant kind and
\* its content as a sequence of one-character strings.
JsVal(type, val) == [type |-> type, val |-> val]

Undefined == JsVal("undefined", <<>>)
JsNull == JsVal("null", <<>>)
JsNumber(n) == JsVal("number", <<ToString(n)>>)
JsBool(b) == JsVal("boolean", <<IF b THEN "true" ELSE "false">>)
JsString(s) == JsVal("string", s)

\* JS `typeof v` (typeof null is "object").
TypeOf(v) == IF v.type = "null" THEN "object" ELSE v.type

\* JS truthiness, as used by `!text`.
Truthy(v) ==
    CASE v.type = "undefined" -> FALSE
      [] v.type = "null" -> FALSE
      [] v.type = "number" -> v.val # <<"0">>
      [] v.type = "boolean" -> v.val = <<"true">>
      [] v.type = "string" -> v.val # <<>>
      [] OTHER -> TRUE

(* ------------------------------ strings ------------------------------- *)

\* The characters String.prototype.trim removes.
WhiteSpace == {" "}

RECURSIVE TrimStart(_)
TrimStart(s) ==
    IF s # <<>> /\ Head(s) \in WhiteSpace THEN TrimStart(Tail(s)) ELSE s

RECURSIVE TrimEnd(_)
TrimEnd(s) ==
    IF s # <<>> /\ s[Len(s)] \in WhiteSpace
    THEN TrimEnd(SubSeq(s, 1, Len(s) - 1))
    ELSE s

\* String.prototype.trim.
Trim(s) == TrimEnd(TrimStart(s))


\* The texts clients submit: empty, blank, bare, padded on either side or on
\* both, and with inner white space.
Texts ==
    {<<>>, <<" ">>, <<" ", " ">>,
     <<"a">>, <<" ", "a">>, <<"a", " ">>, <<" ", "a", " ">>,
     <<"a", " ", "a">>, <<" ", "a", " ", "a", " ">>}

(* ------------------------------- clock -------------------------------- *)

\* Mutant: a rendering with the low digit first, as a day-first date has it.
toISOString_LowFirst(t) == <<t % 10, (t \div 10) % 10>>

\* Mutant: the clock rendered without zero padding.
toISOString_Unpadded(t) == IF t < 10 THEN <<t>> ELSE <<(t \div 10) % 10, t % 10>>

\* Date.prototype.toISOString: a fixed-width, zero-padded rendering of the
\* clock, as a sequence of digits (two digits stand for the ISO fields).
toISOString(t) == <<(t \div 10) % 10, t % 10>>

\* The instant an ISO string denotes.
ParseISO(s) == s[1] * 10 + s[2]

\* SQLite's BINARY collation on TEXT: bytewise comparison, a proper prefix
\* sorts first.
RECURSIVE TextLess(_, _)
TextLess(a, b) ==
    IF b = <<>> THEN FALSE
    ELSE IF a = <<>> THEN TRUE
    ELSE IF Head(a) # Head(b) THEN Head(a) < Head(b)
    ELSE TextLess(Tail(a), Tail(b))

(* ------------------------------ storage ------------------------------- *)

\* The ids crypto.randomUUID() can produce, and an id it never produces.
Ids == 1..MaxTodos
UnknownId == 0
PathIds == Ids \cup {UnknownId}

VARIABLES
    db,        \* table todos: its rows in rowid (insertion) order
    now,       \* the wall clock (ms) as new Date() last read it
    issued,    \* the ids crypto.randomUUID() has produced
    returned,  \* the ids of the 201 responses, in order
    req,       \* the request handled last
    resp,      \* the response to it
    pending    \* the requests whose handler waits at `await req.json()`

vars == <<db, now, issued, returned, req, resp, pending>>

\* Mutant: start-up on a fresh file, as setupTestDb unlinks the old one.
CreateTableIfNotExists_Fresh(file) == << <<>> >>

\* new Database("todos.db") and CREATE TABLE IF NOT EXISTS todos, on a
\* database file that holds the table todos (<<table>>) or holds no table
\* yet (<<>>): the table is created empty when there is none, and is left
\* alone when there is one.
CreateTableIfNotExists(file) ==
    IF Len(file) = 0 THEN << <<>> >> ELSE file

\* Mutant: the INSERT writes 1 into completed.
InsertRow_Completed(id, text, createdAt) ==
    [id |-> id, text |-> text, completed |-> 1, createdAt |-> createdAt]

\* INSERT INTO todos (id, text, completed, createdAt) VALUES (?, ?, 0, ?)
InsertRow(id, text, createdAt) ==
    [id |-> id, text |-> text, completed |-> 0, createdAt |-> createdAt]

\* Mutant: an id column without its PRIMARY KEY constraint.
PrimaryKeyConflict_Never(table, id) == FALSE

\* id TEXT PRIMARY KEY: an INSERT of a present id fails.
PrimaryKeyConflict(table, id) == \E i \in 1..Len(table) : table[i].id = id

\* SELECT * FROM todos WHERE id = ?  (.get: the rows found, none or one)
SelectById(table, id) == SelectSeq(table, LAMBDA r : r.id = id)

\* Mutant: an UPDATE that inserts the row it does not find.
UpdateCompleted_Upsert(table, id, flag) ==
    IF \E i \in 1..Len(table) : table[i].id = id
    THEN [i \in 1..Len(table) |->
             IF table[i].id = id THEN [table[i] EXCEPT !.completed = flag]
             ELSE table[i]]
    ELSE Append(table, [id |-> id, text |-> <<>>, completed |-> flag,
                        createdAt |-> <<0, 0>>])

\* Mutant: the UPDATE flips the flag, whatever value is bound.
UpdateCompleted_Toggle(table, id, flag) ==
    [i \in 1..Len(table) |->
        IF table[i].id = id
        THEN [table[i] EXCEPT !.completed = 1 - table[i].completed]
        ELSE table[i]]

\* Mutant: the UPDATE changes no row.
UpdateCompleted_NoOp(table, id, flag) == table

\* Mutant: an UPDATE without its WHERE clause.
UpdateCompleted_AllRows(table, id, flag) ==
    [i \in 1..Len(table) |-> [table[i] EXCEPT !.completed = flag]]

\* UPDATE todos SET completed = ? WHERE id = ?
UpdateCompleted(table, id, flag) ==
    [i \in 1..Len(table) |->
        IF table[i].id = id THEN [table[i] EXCEPT !.completed = flag]
        ELSE table[i]]

\* Mutant: a DELETE without its WHERE clause.
DeleteById_AllRows(table, id) == <<>>

\* DELETE FROM todos WHERE id = ?
DeleteById(table, id) == SelectSeq(table, LAMBDA r : r.id # id)

\* Mutant: ORDER BY createdAt ASC.
SortedDesc_Asc(list) ==
    \A i, j \in 1..Len(list) :
        i < j => ~TextLess(list[j].createdAt, list[i].createdAt)

\* ORDER BY createdAt DESC: no row sorts before a row with a greater key.
SortedDesc(list) ==
    \A i, j \in 1..Len(list) :
        i < j => ~TextLess(list[i].createdAt, list[j].createdAt)

\* SELECT * FROM todos ORDER BY createdAt DESC  (.all): every ordering of the
\* rows the statement allows; rows with equal keys come in any order.
SelectAllOrdered(table) ==
    LET n == Len(table)
        perms == {p \in [1..n -> 1..n] : \A i, j \in 1..n : i # j => p[i] # p[j]}
    IN  {l \in {[i \in 1..n |-> table[p[i]]] : p \in perms} : SortedDesc(l)}

(* ----------------------------- responses ------------------------------ *)

\* new Response(text, { status, headers: corsHeaders })
TextResponse(text, status) ==
    [status |-> status, btype |-> "text", body |-> text, cors |-> TRUE]

\* Mutant: the completed column written as a JSON boolean.
ToJson_Boolean(row) ==
    [id |-> row.id, text |-> row.text,
     completed |-> JsBool(row.completed = 1), createdAt |-> row.createdAt]

\* The JSON object Response.json writes for a row: the INTEGER column
\* completed is written as a JSON number.
ToJson(row) ==
    [id |-> row.id, text |-> row.text,
     completed |-> JsNumber(row.completed), createdAt |-> row.createdAt]

\* Response.json(todo, { status, headers: corsHeaders }) for the result of
\* .get(): null when no row was found.
JsonResponse(found, status) ==
    IF found = <<>>
    THEN [status |-> status, btype |-> "null", body |-> <<>>, cors |-> TRUE]
    ELSE [status |-> status, btype |-> "todo", body |-> ToJson(found[1]),
          cors |-> TRUE]

\* Response.json(todos, { headers: corsHeaders }) for the result of .all().
JsonListResponse(list) ==
    [status |-> 200, btype |-> "list",
     body |-> [i \in 1..Len(list) |-> ToJson(list[i])], cors |-> TRUE]

\* new Response(null, { status: 204, headers: corsHeaders })
EmptyResponse(status) ==
    [status |-> status, btype |-> "empty", body |-> <<>>, cors |-> TRUE]

\* routes["/api/*"].OPTIONS: new Response(null, { headers: corsHeaders })
OptionsResponse ==
    [status |-> 200, btype |-> "empty", body |-> <<>>, cors |-> TRUE]

\* routes["/"]: new Response(Bun.file(frontendPath), { headers: ... })
HomeResponse ==
    [status |-> 200, btype |-> "file", body |-> "index.html", cors |-> FALSE]

\* Mutant: the fallback answering with a JSON error object.
NotFoundResponse_Json ==
    [status |-> 404, btype |-> "error", body |-> "Not Found", cors |-> FALSE]

\* fetch(req): new Response("Not Found", { status: 404 })
NotFoundResponse ==
    [status |-> 404, btype |-> "text", body |-> "Not Found", cors |-> FALSE]

\* Mutant: an error handler that answers with the error's message.
ErrorResponse_Leaky ==
    [status |-> 500, btype |-> "text",
     body |-> "SQLiteError: attempt to write a readonly database",
     cors |-> FALSE]

\* error(error): what Bun.serve answers when a handler throws or rejects.
\* The error goes to console.error only.
ErrorResponse ==
    [status |-> 500, btype |-> "text", body |-> "Internal Server Error",
     cors |-> FALSE]

(* ------------------------------ requests ------------------------------ *)

\* Request bodies of POST /api/todos: text that is not JSON, the JSON value
\* null, another JSON value that is no object (a number, say), and objects
\* with any text field or none.
TextValues ==
    {Undefined, JsNull, JsNumber(0), JsNumber(123), JsBool(TRUE), JsBool(FALSE)}
    \cup {JsString(s) : s \in Texts}

PostBodies ==
    {[kind |-> k, text |-> Undefined] : k \in {"unparseable", "null", "scalar"}}
    \cup {[kind |-> "object", text |-> v] : v \in TextValues}

\* Request bodies of PATCH /api/todos/:id.
CompletedValues ==
    {Undefined, JsNull, JsNumber(0), JsNumber(1), JsBool(TRUE), JsBool(FALSE),
     JsString(<<"true">>), JsString(<<"false">>)}

PatchBodies ==
    {[kind |-> k, completed |-> Undefined] : k \in {"unparseable", "null", "scalar"}}
    \cup {[kind |-> "object", completed |-> v] : v \in CompletedValues}

\* `await req.json()` rejects (SyntaxError) on a body that is not JSON, and
\* destructuring `const { text } = null` throws (TypeError).
BodyThrows(body) == body.kind \in {"unparseable", "null"}

(* ------------------------------ handlers ------------------------------ *)

\* Mutant: the check without `!text.trim()`.
InvalidText_NoTrim(text) == ~Truthy(text) \/ TypeOf(text) # "string"

\* if (!text || typeof text !== "string" || !text.trim())
InvalidText(text) ==
    \/ ~Truthy(text)
    \/ TypeOf(text) # "string"
    \/ ~Truthy(JsString(Trim(text.val)))

\* Mutant: the raw text is bound.
StoredText_Raw(text) == text.val

\* The value POST binds to the text column: text.trim().
StoredText(text) == Trim(text.val)

\* Mutant: the 201 body read back as the newest row by createdAt, not as
\* the row with the new id.
PostHandler_ReadsNewest(table, body, id, t) ==
    IF BodyThrows(body) THEN [db |-> table, resp |-> ErrorResponse]
    ELSE IF InvalidText(body.text)
    THEN [db |-> table, resp |-> TextResponse("Invalid todo text", 400)]
    ELSE IF PrimaryKeyConflict(table, id)
    THEN [db |-> table, resp |-> ErrorResponse]
    ELSE LET inserted ==
                 Append(table, InsertRow(id, StoredText(body.text), toISOString(t)))
             newest ==
                 CHOOSE i \in 1..Len(inserted) :
                     \A j \in 1..Len(inserted) :
                         /\ ~TextLess(inserted[i].createdAt, inserted[j].createdAt)
                         /\ inserted[j].createdAt = inserted[i].createdAt => i <= j
         IN  [db |-> inserted,
              resp |-> JsonResponse(<<inserted[newest]>>, 201)]

\* POST /api/todos, with the id crypto.randomUUID() returns and the clock
\* reading new Date() takes.
PostHandler(table, body, id, t) ==
    IF BodyThrows(body) THEN [db |-> table, resp |-> ErrorResponse]
    ELSE IF InvalidText(body.text)
    THEN [db |-> table, resp |-> TextResponse("Invalid todo text", 400)]
    ELSE IF PrimaryKeyConflict(table, id)
    THEN [db |-> table, resp |-> ErrorResponse]
    ELSE LET inserted ==
                 Append(table, InsertRow(id, StoredText(body.text), toISOString(t)))
         IN  [db |-> inserted,
              resp |-> JsonResponse(SelectById(inserted, id), 201)]

\* Mutant: listing purges the completed rows.
GetAllHandler_Purging(table, list) ==
    [db |-> SelectSeq(table, LAMBDA r : r.completed = 0),
     resp |-> JsonListResponse(list)]

\* GET /api/todos, answering with one of the orderings the query allows.
GetAllHandler(table, list) == [db |-> table, resp |-> JsonListResponse(list)]

\* Mutant: a read that takes the row it returns out of the table.
GetByIdHandler_Taking(table, id) ==
    LET todo == SelectById(table, id)
    IN  IF todo = <<>>
        THEN [db |-> table, resp |-> TextResponse("Todo not found", 404)]
        ELSE [db |-> DeleteById(table, id), resp |-> JsonResponse(todo, 200)]

\* Mutant: no `if (!todo)` check.
GetByIdHandler_NoCheck(table, id) ==
    [db |-> table, resp |-> JsonResponse(SelectById(table, id), 200)]

\* GET /api/todos/:id
GetByIdHandler(table, id) ==
    LET todo == SelectById(table, id)
    IN  IF todo = <<>>
        THEN [db |-> table, resp |-> TextResponse("Todo not found", 404)]
        ELSE [db |-> table, resp |-> JsonResponse(todo, 200)]

\* Mutant: the existence check before the type check.
PatchHandler_ExistenceFirst(table, id, body) ==
    IF BodyThrows(body) THEN [db |-> table, resp |-> ErrorResponse]
    ELSE IF SelectById(table, id) = <<>>
    THEN [db |-> table, resp |-> TextResponse("Todo not found", 404)]
    ELSE IF TypeOf(body.completed) # "boolean"
    THEN [db |-> table, resp |-> TextResponse("Invalid request", 400)]
    ELSE LET updated ==
                 UpdateCompleted(table, id,
                                 IF Truthy(body.completed) THEN 1 ELSE 0)
         IN  [db |-> updated, resp |-> JsonResponse(SelectById(updated, id), 200)]

\* Mutant: the UPDATE before the type check.
PatchHandler_UpdateFirst(table, id, body) ==
    IF BodyThrows(body) THEN [db |-> table, resp |-> ErrorResponse]
    ELSE LET updated ==
                 UpdateCompleted(table, id,
                                 IF Truthy(body.completed) THEN 1 ELSE 0)
         IN  IF TypeOf(body.completed) # "boolean"
             THEN [db |-> updated, resp |-> TextResponse("Invalid request", 400)]
             ELSE IF SelectById(table, id) = <<>>
             THEN [db |-> table, resp |-> TextResponse("Todo not found", 404)]
             ELSE [db |-> updated,
                   resp |-> JsonResponse(SelectById(updated, id), 200)]

\* PATCH /api/todos/:id
PatchHandler(table, id, body) ==
    IF BodyThrows(body) THEN [db |-> table, resp |-> ErrorResponse]
    ELSE IF TypeOf(body.completed) # "boolean"
    THEN [db |-> table, resp |-> TextResponse("Invalid request", 400)]
    ELSE IF SelectById(table, id) = <<>>
    THEN [db |-> table, resp |-> TextResponse("Todo not found", 404)]
    ELSE LET updated ==
                 UpdateCompleted(table, id,
                                 IF Truthy(body.completed) THEN 1 ELSE 0)
         IN  [db |-> updated, resp |-> JsonResponse(SelectById(updated, id), 200)]

\* Mutant: no existence check, as the bare DELETE statement behaves.
DeleteHandler_Silent(table, id) ==
    [db |-> DeleteById(table, id), resp |-> EmptyResponse(204)]

\* DELETE /api/todos/:id
DeleteHandler(table, id) ==
    IF SelectById(table, id) = <<>>
    THEN [db |-> table, resp |-> TextResponse("Todo not found", 404)]
    ELSE [db |-> DeleteById(table, id), resp |-> EmptyResponse(204)]

(* ------------------------------- actions ------------------------------ *)

\* Mutant: a generator that repeats itself.
randomUUID_Repeating == Ids

\* crypto.randomUUID(): an id it has not produced before.  The handlers
\* only test ids for equality, so which unused id comes next is immaterial
\* and the model takes them in one order.
randomUUID == {id \in Ids \ issued : \A other \in Ids \ issued : id <= other}

\* The server takes one request at a time: a request is handled when the
\* response to the one before has been sent.
Idle == resp.status = 0

\* The paths and HTTP methods of the requests the server receives.
ApiPaths == {"/api/todos", "/api/todos/:id", "/api/other"}
Paths == ApiPaths \cup {"/", "/other"}
Verbs == {"GET", "POST", "PATCH", "DELETE", "OPTIONS", "PUT"}

\* Mutant: a route that matches the path hides the "/api/*" route from the
\* methods it does not list.
Route_PathFirst(verb, path) ==
    CASE path = "/" -> "HOME"
      [] path = "/api/todos" ->
            (CASE verb = "GET" -> "GET_ALL"
               [] verb = "POST" -> "POST"
               [] OTHER -> "UNMATCHED")
      [] path = "/api/todos/:id" ->
            (CASE verb \in {"GET", "PATCH", "DELETE"} -> verb
               [] OTHER -> "UNMATCHED")
      [] path \in ApiPaths /\ verb = "OPTIONS" -> "OPTIONS"
      [] OTHER -> "UNMATCHED"

\* The entry of `routes` Bun.serve picks for a request, or "UNMATCHED" when
\* it falls through to fetch(req).  Routes are kept per method: one with
\* method handlers matches only the methods it lists, the function under
\* "/" matches every method.
Route(verb, path) ==
    CASE path = "/" -> "HOME"
      [] path \in ApiPaths /\ verb = "OPTIONS" -> "OPTIONS"
      [] path = "/api/todos" /\ verb = "GET" -> "GET_ALL"
      [] path = "/api/todos" /\ verb = "POST" -> "POST"
      [] path = "/api/todos/:id" /\ verb \in {"GET", "PATCH", "DELETE"} -> verb
      [] OTHER -> "UNMATCHED"

\* A request as its handler sees it: `method` names the handler that takes
\* it, `id` is req.params.id.
Request(method, id, body) ==
    [method |-> method, id |-> id, body |-> body,
     verb |-> IF method = "GET_ALL" THEN "GET" ELSE method,
     path |-> CASE method \in {"GET_ALL", "POST"} -> "/api/todos"
                [] method \in {"GET", "PATCH", "DELETE"} -> "/api/todos/:id"
                [] OTHER -> ""]

\* A request that reaches no handler of the todo routes.
PlainRequest(method, verb, path) ==
    [method |-> method, id |-> UnknownId, body |-> [kind |-> "none"],
     verb |-> verb, path |-> path]

NoBody == [kind |-> "none"]

NoRequest == Request("NONE", UnknownId, NoBody)
NoResponse == EmptyResponse(0)

Init ==
    /\ db = CreateTableIfNotExists(<<>>)[1]
    /\ now = Epoch
    /\ issued = {}
    /\ returned = <<>>
    /\ req = NoRequest
    /\ resp = NoResponse
    /\ pending = {}

\* A POST /api/todos request whose body fails validation or cannot be read.
PostRejected ==
    /\ Idle
    /\ \E body \in PostBodies :
        /\ BodyThrows(body) \/ InvalidText(body.text)
        /\ LET out == PostHandler(db, body, UnknownId, now)
           IN  /\ db' = out.db
               /\ req' = Request("POST", UnknownId, body)
               /\ resp' = out.resp
        /\ UNCHANGED <<now, issued, returned, pending>>

\* A POST /api/todos request that passes validation, arriving when the
\* clock reads t.
Post ==
    /\ Idle
    /\ UNCHANGED pending
    /\ \E body \in PostBodies, t \in now..(Epoch + MaxClock), id \in randomUUID :
        /\ ~BodyThrows(body) /\ ~InvalidText(body.text)
        /\ LET out == PostHandler(db, body, id, t)
           IN  /\ db' = out.db
               /\ now' = t
               /\ issued' = issued \cup {id}
               /\ returned' = IF out.resp.status = 201
                              THEN Append(returned, out.resp.body.id)
                              ELSE returned
               /\ req' = Request("POST", UnknownId, body)
               /\ resp' = out.resp

\* A GET /api/todos request.
GetAll ==
    /\ Idle
    /\ \E list \in SelectAllOrdered(db) :
        /\ LET out == GetAllHandler(db, list)
           IN  /\ db' = out.db
               /\ req' = Request("GET_ALL", UnknownId, NoBody)
               /\ resp' = out.resp
        /\ UNCHANGED <<now, issued, returned, pending>>

\* A GET /api/todos/:id request.
GetById ==
    /\ Idle
    /\ \E id \in PathIds :
        /\ LET out == GetByIdHandler(db, id)
           IN  /\ db' = out.db
               /\ req' = Request("GET", id, NoBody)
               /\ resp' = out.resp
        /\ UNCHANGED <<now, issued, returned, pending>>

\* A PATCH /api/todos/:id request.
Patch ==
    /\ Idle
    /\ \E id \in PathIds, body \in PatchBodies :
        /\ LET out == PatchHandler(db, id, body)
           IN  /\ db' = out.db
               /\ req' = Request("PATCH", id, body)
               /\ resp' = out.resp
        /\ UNCHANGED <<now, issued, returned, pending>>

\* A DELETE /api/todos/:id request.
Delete ==
    /\ Idle
    /\ \E id \in PathIds :
        /\ LET out == DeleteHandler(db, id)
           IN  /\ db' = out.db
               /\ req' = Request("DELETE", id, NoBody)
               /\ resp' = out.resp
        /\ UNCHANGED <<now, issued, returned, pending>>

\* An OPTIONS request to a path under /api/.
Options ==
    /\ Idle
    /\ \E path \in Paths :
        /\ Route("OPTIONS", path) = "OPTIONS"
        /\ req' = PlainRequest("OPTIONS", "OPTIONS", path)
        /\ resp' = OptionsResponse
        /\ UNCHANGED <<db, now, issued, returned, pending>>

\* A request for the page at "/".
Home ==
    /\ Idle
    /\ \E verb \in Verbs :
        /\ Route(verb, "/") = "HOME"
        /\ req' = PlainRequest("HOME", verb, "/")
        /\ resp' = HomeResponse
        /\ UNCHANGED <<db, now, issued, returned, pending>>

\* A request no route takes: it falls through to fetch(req).
Unmatched ==
    /\ Idle
    /\ \E verb \in Verbs, path \in Paths :
        /\ Route(verb, path) = "UNMATCHED"
        /\ req' = PlainRequest("UNMATCHED", verb, path)
        /\ resp' = NotFoundResponse
        /\ UNCHANGED <<db, now, issued, returned, pending>>

\* The server process is started again on the database file it left: the
\* module runs from its top, and no request is being handled.
Restart ==
    /\ Idle
    /\ pending = {}
    /\ db' = CreateTableIfNotExists(<<db>>)[1]
    /\ req' = PlainRequest("RESTART", "", "")
    /\ resp' = NoResponse
    /\ UNCHANGED <<now, issued, returned, pending>>

\* The response is sent and the request is over.
Respond ==
    /\ ~Idle
    /\ req' = NoRequest
    /\ resp' = NoResponse
    /\ UNCHANGED <<db, now, issued, returned, pending>>

Next ==
    \/ PostRejected \/ Post \/ GetAll \/ GetById \/ Patch \/ Delete
    \/ Options \/ Home \/ Unmatched
    \/ Restart
    \/ Respond

Spec == Init /\ [][Next]_vars

(* ------------------------------- faults ------------------------------- *)

\* A statement that throws inside a handler: SQLite undoes the statement,
\* nothing after it in the handler runs, and Bun.serve calls error(error).
Thrown(table) == [db |-> table, resp |-> ErrorResponse]

\* The ids of the rows of the table.
RowIds(table) == {table[i].id : i \in 1..Len(table)}

\* A POST whose id is the id of a stored row: the INSERT violates the
\* PRIMARY KEY constraint.  The clock reading the handler took goes with the
\* request: no row and no response carries it.
PostConflict ==
    /\ Idle
    /\ \E body \in PostBodies, id \in RowIds(db) :
        /\ ~BodyThrows(body) /\ ~InvalidText(body.text)
        /\ LET out == PostHandler(db, body, id, now)
           IN  /\ db' = out.db
               /\ req' = Request("POST", UnknownId, body)
               /\ resp' = out.resp
        /\ UNCHANGED <<now, issued, returned, pending>>

\* A POST that passes validation while the storage cannot be written: the
\* INSERT throws.  The id and the clock reading the handler took go with the
\* request: no row and no response carries them.
PostUnwritable ==
    /\ Idle
    /\ \E body \in PostBodies :
        /\ ~BodyThrows(body) /\ ~InvalidText(body.text)
        /\ LET out == Thrown(db)
           IN  /\ db' = out.db
               /\ req' = Request("POST", UnknownId, body)
               /\ resp' = out.resp
        /\ UNCHANGED <<now, issued, returned, pending>>

\* A PATCH that reaches its UPDATE while the storage cannot be written.
PatchUnwritable ==
    /\ Idle
    /\ \E id \in PathIds, body \in PatchBodies :
        /\ ~BodyThrows(body)
        /\ TypeOf(body.completed) = "boolean"
        /\ SelectById(db, id) # <<>>
        /\ LET out == Thrown(db)
           IN  /\ db' = out.db
               /\ req' = Request("PATCH", id, body)
               /\ resp' = out.resp
        /\ UNCHANGED <<now, issued, returned, pending>>

\* A DELETE that reaches its DELETE statement while the storage cannot be
\* written.
DeleteUnwritable ==
    /\ Idle
    /\ \E id \in PathIds :
        /\ SelectById(db, id) # <<>>
        /\ LET out == Thrown(db)
           IN  /\ db' = out.db
               /\ req' = Request("DELETE", id, NoBody)
               /\ resp' = out.resp
        /\ UNCHANGED <<now, issued, returned, pending>>

NextFaults ==
    \/ PostRejected \/ Post \/ GetAll \/ GetById \/ Patch \/ Delete
    \/ PostConflict \/ PostUnwritable \/ PatchUnwritable \/ DeleteUnwritable
    \/ Respond

\* The todo routes with handlers that may fault at their write statements.
\* The routes that never touch the store are left to Spec.
SpecFaults == Init /\ [][NextFaults]_vars

(* ----------------------------- statements ----------------------------- *)

\* A statement run on the table directly, as the tests of the repository
\* run them: db.query(sql).run(...) with no handler around it.
Statement(kind, id) ==
    [method |-> kind, id |-> id, body |-> NoBody, verb |-> "", path |-> ""]

\* The texts the handlers store.
StoredTexts == {Trim(s) : s \in {t \in Texts : Trim(t) # <<>>}}

\* INSERT INTO todos (id, text, completed, createdAt) VALUES (?, ?, 0, ?)
RunInsert ==
    \E id \in randomUUID, text \in StoredTexts, t \in now..(Epoch + MaxClock) :
        /\ db' = Append(db, InsertRow(id, text, toISOString(t)))
        /\ now' = t
        /\ issued' = issued \cup {id}
        /\ req' = Statement("SQL_INSERT", id)
        /\ UNCHANGED <<returned, resp, pending>>

\* UPDATE todos SET completed = ? WHERE id = ?, with any id.
RunUpdate ==
    \E id \in PathIds, flag \in {0, 1} :
        /\ db' = UpdateCompleted(db, id, flag)
        /\ req' = Statement("SQL_UPDATE", id)
        /\ UNCHANGED <<now, issued, returned, resp, pending>>

\* DELETE FROM todos WHERE id = ?, with any id.
RunDelete ==
    \E id \in PathIds :
        /\ db' = DeleteById(db, id)
        /\ req' = Statement("SQL_DELETE", id)
        /\ UNCHANGED <<now, issued, returned, resp, pending>>

NextStorage == RunInsert \/ RunUpdate \/ RunDelete

\* The storage layer on its own, under any sequence of statements.
SpecStorage == Init /\ [][NextStorage]_vars

(* ---------------------------- concurrency ----------------------------- *)

\* Bun runs the handlers on one thread: a handler runs until it returns or
\* reaches an `await`, and other handlers run while it waits.  GET and
\* DELETE have no await; PATCH and POST have one, `await req.json()`, as
\* their first statement.

\* The PATCH bodies that bring the handler to its statements.
BooleanBodies == {body \in PatchBodies : ~BodyThrows(body) /\ TypeOf(body.completed) = "boolean"}

\* A PATCH whose handler waits for the body; `existed` notes whether the
\* addressed id had a row when the request arrived.
Suspended(id, body, existed) ==
    [method |-> "PATCH", id |-> id, body |-> body, verb |-> "PATCH",
     path |-> "/api/todos/:id", existed |-> existed]

\* Mutant: the existence check made before the await, the UPDATE after it.
PatchResumed_CheckedBefore(table, id, body, existed) ==
    IF ~existed
    THEN [db |-> table, resp |-> TextResponse("Todo not found", 404)]
    ELSE LET updated ==
                 UpdateCompleted(table, id,
                                 IF Truthy(body.completed) THEN 1 ELSE 0)
         IN  [db |-> updated, resp |-> JsonResponse(SelectById(updated, id), 200)]

\* What the PATCH handler runs once the body has arrived: every check and
\* every statement it has, on the table as it is then.  It read nothing
\* before the await.
PatchResumed(table, id, body, existed) == PatchHandler(table, id, body)

\* A POST of one text, handled at the clock's last reading.  What PATCH and
\* DELETE do depends on no text and no createdAt, so one of each is enough
\* here; POST reads the store only for its own new row.
PostPlain ==
    /\ Idle
    /\ \E id \in randomUUID :
        LET body == [kind |-> "object", text |-> JsString(<<"a">>)]
            out == PostHandler(db, body, id, now)
        IN  /\ db' = out.db
            /\ issued' = issued \cup {id}
            /\ returned' = Append(returned, out.resp.body.id)
            /\ req' = Request("POST", UnknownId, body)
            /\ resp' = out.resp
    /\ UNCHANGED <<now, pending>>

\* A PATCH request arrives: its handler starts reading the body and waits.
PatchArrives ==
    /\ Idle
    /\ Cardinality(pending) < MaxPending
    /\ \E id \in PathIds, body \in BooleanBodies :
        pending' = pending \cup {Suspended(id, body, SelectById(db, id) # <<>>)}
    /\ UNCHANGED <<db, now, issued, returned, req, resp>>

\* Mutant: a PATCH that goes on only once its id has a row, waiting for a
\* POST to create it.
PatchResumes_WaitsForRow ==
    /\ Idle
    /\ \E r \in pending :
        /\ SelectById(db, r.id) # <<>>
        /\ LET out == PatchHandler(db, r.id, r.body)
           IN  /\ db' = out.db
               /\ req' = r
               /\ resp' = out.resp
        /\ pending' = pending \ {r}
        /\ UNCHANGED <<now, issued, returned>>

\* The body of a waiting PATCH has arrived: the rest of its handler runs.
PatchResumes ==
    /\ Idle
    /\ \E r \in pending :
        /\ LET out == PatchResumed(db, r.id, r.body, r.existed)
           IN  /\ db' = out.db
               /\ req' = r
               /\ resp' = out.resp
        /\ pending' = pending \ {r}
        /\ UNCHANGED <<now, issued, returned>>

NextConcurrent ==
    \/ PostPlain \/ Delete
    \/ PatchArrives \/ PatchResumes
    \/ Respond

\* The todo routes with PATCH handlers that wait for their bodies while
\* other requests are handled.
SpecConcurrent == Init /\ [][NextConcurrent]_vars

NextLive ==
    \/ PostPlain
    \/ PatchArrives \/ PatchResumes
    \/ Respond

\* PATCH handlers that wait while POST requests are handled, with the
\* scheduling of Bun's event loop: the body of a received request arrives
\* and the continuation of its `await` is run, however many other requests
\* are handled meanwhile (for every id, a waiting PATCH of that id that can
\* go on again and again does go on), and a response a handler returned is
\* sent.
SpecLive ==
    /\ Init
    /\ [][NextLive]_vars
    /\ \A id \in PathIds : SF_vars(PatchResumes /\ req'.id = id)
    /\ WF_vars(Respond)

\* A POST request arrives: its handler starts reading the body and waits.
\* The bodies are those that bring the handler to its INSERT.
PostArrives ==
    /\ Idle
    /\ Cardinality(pending) < MaxPending
    /\ \E body \in PostBodies :
        /\ ~BodyThrows(body) /\ ~InvalidText(body.text)
        /\ pending' = pending \cup {Request("POST", UnknownId, body)}
    /\ UNCHANGED <<db, now, issued, returned, req, resp>>

\* The body of a waiting POST has arrived: the rest of its handler runs,
\* from the validation to the response, when the clock reads t.
PostResumes ==
    /\ Idle
    /\ \E r \in pending, t \in now..(Epoch + MaxClock), id \in randomUUID :
        /\ LET out == PostHandler(db, r.body, id, t)
           IN  /\ db' = out.db
               /\ now' = t
               /\ issued' = issued \cup {id}
               /\ returned' = IF out.resp.status = 201
                              THEN Append(returned, out.resp.body.id)
                              ELSE returned
               /\ req' = r
               /\ resp' = out.resp
        /\ pending' = pending \ {r}

NextConcurrentPosts ==
    \/ Post
    \/ PostArrives \/ PostResumes
    \/ Respond

\* POST handlers that wait for their bodies while other POST requests are
\* handled.
SpecConcurrentPosts == Init /\ [][NextConcurrentPosts]_vars

(* ------------------------------- claims ------------------------------- *)

\* The row a 201 response describes: the one POST appended.
LastRow == db[Len(db)]

PostAnswered(status) == req.method = "POST" /\ resp.status = status

\* s is t without its leading and trailing white space: t is a run of white
\* space, then s, then a run of white space, and s neither starts nor ends
\* with white space.
IsTrimOf(s, t) ==
    /\ s # <<>> => s[1] \notin WhiteSpace /\ s[Len(s)] \notin WhiteSpace
    /\ \E a, b \in 0..Len(t) :
        /\ a + Len(s) + b = Len(t)
        /\ \A k \in 1..a : t[k] \in WhiteSpace
        /\ \A k \in (Len(t) - b + 1)..Len(t) : t[k] \in WhiteSpace
        /\ SubSeq(t, a + 1, a + Len(s)) = s

\* C1: no two rows of the store share an id, and the ids returned by the
\* successful POST requests so far are pairwise distinct.
C1_UniqueIds ==
    /\ \A i, j \in 1..Len(db) : i # j => db[i].id # db[j].id
    /\ \A i, j \in 1..Len(returned) : i # j => returned[i] # returned[j]

\* Three creates answered 201, one of the rows deleted since.
C1_Witness == Len(returned) = 3 /\ Len(db) = 2

\* C2: the text of every stored row is non-empty and has a character that
\* is not white space.
C2_TextNeverBlank ==
    \A i \in 1..Len(db) :
        /\ db[i].text # <<>>
        /\ \E k \in 1..Len(db[i].text) : db[i].text[k] \notin WhiteSpace

\* A row stored from a text padded with white space on both sides.
C2_Witness ==
    /\ PostAnswered(201)
    /\ req.body.text.val = <<" ", "a", " ">>
    /\ Len(db) >= 2

\* C3: a successful POST stores the submitted text without its leading and
\* trailing white space (so never the raw value when that is padded), and a
\* POST of the stored, already trimmed, text stores the same text.
C3_StoresTrimmedText ==
    PostAnswered(201) =>
        LET raw == req.body.text.val
            again == PostHandler(<<>>, [kind |-> "object", text |-> JsString(LastRow.text)],
                                 LastRow.id, now)
        IN  /\ IsTrimOf(LastRow.text, raw)
            /\ resp.body.text = LastRow.text
            /\ raw[1] \in WhiteSpace \/ raw[Len(raw)] \in WhiteSpace
                   => LastRow.text # raw
            /\ again.resp.status = 201
            /\ again.db[1].text = LastRow.text

\* A POST of a text padded on both sides and with inner white space.
C3_Witness ==
    /\ PostAnswered(201)
    /\ req.body.text.val = <<" ", "a", " ", "a", " ">>
    /\ LastRow.text = <<"a", " ", "a">>

\* The body carries a text field that is a string with a character that is
\* not white space.
HasUsableText(body) ==
    /\ body.kind = "object"
    /\ body.text.type = "string"
    /\ \E k \in 1..Len(body.text.val) : body.text.val[k] \notin WhiteSpace

\* C4: POST /api/todos answers 400 when the text field of a parseable body
\* is missing, is no string or trims to the empty string, and 201 for every
\* other parseable body.
C4_Original ==
    (req.method = "POST" /\ req.body.kind # "unparseable") =>
        resp.status = (IF HasUsableText(req.body) THEN 201 ELSE 400)

\* C5: a POST /api/todos whose body is not JSON is answered 400 and inserts
\* no row.
C5_Original ==
    [][(Idle /\ req'.method = "POST" /\ req'.body.kind = "unparseable")
        => (resp'.status = 400 /\ db' = db)]_vars

\* What a successful POST does to the store and answers, given how the 201
\* body renders the completed flag of the new row.
CreateAddsOneRow(flag) ==
    (Idle /\ req'.method = "POST" /\ resp'.status = 201) =>
        LET row == db'[Len(db')]
        IN  /\ Len(db') = Len(db) + 1
            /\ SubSeq(db', 1, Len(db)) = db
            /\ row.id \in issued' \ issued
            /\ row.createdAt = toISOString(now')
            /\ row.completed = 0
            /\ resp'.btype = "todo"
            /\ resp'.body.id = row.id
            /\ resp'.body.text = row.text
            /\ resp'.body.createdAt = row.createdAt
            /\ resp'.body.completed = flag

\* C6, as amended: a successful POST adds exactly one row, whose id comes
\* from the server's generator, whose createdAt is the server's clock
\* reading and whose completed flag is 0; the 201 body is that row, with
\* completed the number 0.
C6_CreateAddsOneRow == [][CreateAddsOneRow(JsNumber(0))]_vars

\* C6, as claimed: the 201 body carries completed equal to false.
C6_Original == [][CreateAddsOneRow(JsBool(FALSE))]_vars

\* A create answered 201 on a store that already held two rows.
C6_Witness == PostAnswered(201) /\ Len(db) = 3 /\ resp.body.completed = JsNumber(0)

\* The JSON object `item` carries exactly the fields of the stored `row`.
SameAsStored(item, row) ==
    /\ item.id = row.id
    /\ item.text = row.text
    /\ item.createdAt = row.createdAt
    /\ item.completed.type = "number"
    /\ item.completed.val = <<ToString(row.completed)>>

ListAnswered == req.method = "GET_ALL"

\* The stored rows, newest created first, as a list response carries them.
NewestCreatedFirst(list) ==
    /\ Len(list) = Len(db)
    /\ \A k \in 1..Len(db) : SameAsStored(list[k], db[Len(db) + 1 - k])

\* C7: GET /api/todos answers 200 with every stored row exactly once, in
\* non-increasing order of createdAt; on an empty store, with an empty array.
C7_ListsEveryRowNewestFirst ==
    ListAnswered =>
        /\ resp.status = 200
        /\ resp.btype = "list"
        /\ Len(resp.body) = Len(db)
        /\ \A i \in 1..Len(db) :
               Cardinality({k \in 1..Len(resp.body) :
                               SameAsStored(resp.body[k], db[i])}) = 1
        /\ \A k \in 1..(Len(resp.body) - 1) :
               ParseISO(resp.body[k].createdAt)
                   >= ParseISO(resp.body[k + 1].createdAt)
        /\ db = <<>> => resp.body = <<>>

\* A list of three rows, two of them created in the same millisecond and
\* one later, across the clock's digit carry.
C7_Witness ==
    /\ ListAnswered
    /\ Len(db) = 3
    /\ db[1].createdAt = db[2].createdAt
    /\ ParseISO(db[2].createdAt) < 10
    /\ ParseISO(db[3].createdAt) >= 10

\* The three rows were created at pairwise distinct clock readings.
DistinctTimestamps ==
    \A i, j \in 1..Len(db) : i # j => db[i].createdAt # db[j].createdAt

\* C8: todos A, B, C created in that order at pairwise distinct timestamps
\* are listed as [C, B, A].
C8_ThreeListedInReverse ==
    (ListAnswered /\ Len(db) = 3 /\ DistinctTimestamps) =>
        NewestCreatedFirst(resp.body)

\* A list of three rows with distinct timestamps, answered in reverse.
C8_Witness ==
    /\ ListAnswered
    /\ Len(db) = 3
    /\ DistinctTimestamps
    /\ resp.body[1].id = db[3].id
    /\ resp.body[3].id = db[1].id

\* C9: whatever their timestamps, the todos are listed in reverse order of
\* creation.
C9_Original == ListAnswered => NewestCreatedFirst(resp.body)

\* C10: GET /api/todos/:id answers 200 with the row as the store holds it
\* now when a row has that id, and 404 when none has; a 200 never carries a
\* null or empty body.
C10_GetByIdReadsStore ==
    req.method = "GET" =>
        LET found == {i \in 1..Len(db) : db[i].id = req.id}
        IN  IF found # {}
            THEN /\ resp.status = 200
                 /\ resp.btype = "todo"
                 /\ \A i \in found : SameAsStored(resp.body, db[i])
            ELSE /\ resp.status = 404
                 /\ resp.btype = "text"

\* A row read back after a PATCH set its flag, and a read of an id that was
\* never issued.
C10_Witness ==
    /\ req.method = "GET"
    /\ resp.status = 200
    /\ resp.body.completed = JsNumber(1)
    /\ Len(db) >= 2

C10_WitnessAbsent ==
    /\ req.method = "GET"
    /\ resp.status = 404
    /\ req.id \in issued
    /\ Len(db) >= 1

\* The rows of `table` with the given id, by position.
RowsWithId(table, id) == {i \in 1..Len(table) : table[i].id = id}

\* The body carries a completed field that is exactly true or false.
HasBooleanCompleted(body) ==
    body.kind = "object" /\ body.completed.type = "boolean"

\* The integer the store keeps for a JSON boolean.
FlagOf(completed) == IF completed.val = <<"true">> THEN 1 ELSE 0

\* C11: PATCH /api/todos/:id answers 400 whenever the completed field of a
\* parseable body is not exactly a boolean (a number, a string, null or
\* missing), and accepts true and false.
C11_Original ==
    (req.method = "PATCH" /\ req.body.kind # "unparseable") =>
        IF HasBooleanCompleted(req.body)
        THEN resp.status \in {200, 404}
        ELSE resp.status = 400

BooleanPatch ==
    Idle /\ req'.method = "PATCH" /\ HasBooleanCompleted(req'.body)

\* C13: a PATCH with a boolean completed answers 200 with the updated row,
\* whose flag is the requested value, when the id has a row; when it has
\* none, it answers 404 and the store has no row more.
C13_PatchSetsFlag ==
    [][BooleanPatch =>
        IF RowsWithId(db, req'.id) # {}
        THEN /\ resp'.status = 200
             /\ resp'.btype = "todo"
             /\ \A i \in RowsWithId(db', req'.id) :
                    /\ db'[i].completed = FlagOf(req'.body.completed)
                    /\ SameAsStored(resp'.body, db'[i])
             /\ RowsWithId(db', req'.id) # {}
        ELSE /\ resp'.status = 404
             /\ db' = db]_vars

\* A PATCH that set a flag and one that cleared a set flag.
C13_Witness ==
    /\ req.method = "PATCH"
    /\ resp.status = 200
    /\ req.body.completed = JsBool(FALSE)
    /\ \E i \in 1..Len(db) : db[i].completed = 1
    /\ \E i \in RowsWithId(db, req.id) : db[i].completed = 0

\* C14: a successful PATCH changes nothing but the completed flag of the
\* addressed row: the rows keep their number and order, the addressed row
\* its id, text and createdAt, and every other row all of its fields.
C14_PatchChangesOnlyFlag ==
    [][(Idle /\ req'.method = "PATCH" /\ resp'.status = 200) =>
        /\ Len(db') = Len(db)
        /\ \A i \in 1..Len(db) :
               /\ db'[i].id = db[i].id
               /\ db'[i].text = db[i].text
               /\ db'[i].createdAt = db[i].createdAt
               /\ db[i].id # req'.id => db'[i] = db[i]]_vars

\* A PATCH that set the flag of one of three rows, the others left clear.
C14_Witness ==
    /\ req.method = "PATCH"
    /\ resp.status = 200
    /\ Len(db) = 3
    /\ Cardinality({i \in 1..3 : db[i].completed = 1}) = 1
    /\ db[2].id = req.id /\ db[2].completed = 1

\* C15: a DELETE of an id that has a row answers 204 and the row is gone;
\* a DELETE of an id whose row was deleted answers 404 and leaves the store
\* as it was; and a deleted id has no row again (ids are not reused).
C15_DeleteTwice ==
    [][/\ (Idle /\ req'.method = "DELETE") =>
            IF RowsWithId(db, req'.id) # {}
            THEN resp'.status = 204 /\ RowsWithId(db', req'.id) = {}
            ELSE resp'.status = 404 /\ db' = db
       /\ \A id \in issued : RowsWithId(db, id) = {} => RowsWithId(db', id) = {}]_vars

\* The second DELETE of an id, other rows remaining.
C15_Witness ==
    /\ req.method = "DELETE"
    /\ resp.status = 404
    /\ req.id \in issued
    /\ Len(db) >= 1

\* The list answers GET /api/todos can give on `table`: each row once,
\* newest first.
ListsNewestFirst(table) ==
    \A list \in SelectAllOrdered(table) :
        LET body == GetAllHandler(table, list).resp.body
        IN  /\ Len(body) = Len(table)
            /\ \A i \in 1..Len(table) :
                   \E k \in 1..Len(body) : SameAsStored(body[k], table[i])
            /\ \A k \in 1..(Len(body) - 1) :
                   ParseISO(body[k].createdAt) >= ParseISO(body[k + 1].createdAt)

\* C16: a successful DELETE removes the addressed row and no other: the
\* other rows stay, in their order and with all their fields, and a GET
\* /api/todos that follows lists them newest first.
C16_DeleteRemovesOneRow ==
    [][(Idle /\ req'.method = "DELETE" /\ resp'.status = 204) =>
        /\ Len(db') = Len(db) - 1
        /\ \E k \in 1..Len(db) :
               /\ db[k].id = req'.id
               /\ \A i \in 1..Len(db') :
                      db'[i] = IF i < k THEN db[i] ELSE db[i + 1]
        /\ ListsNewestFirst(db')]_vars

\* The middle one of three rows deleted.
C16_Witness ==
    /\ req.method = "DELETE"
    /\ resp.status = 204
    /\ Len(db) = 2
    /\ db[1].id < req.id /\ req.id < db[2].id
    /\ db[1].createdAt # db[2].createdAt

\* C17: a request answered 400 or 404 leaves the store as it was.
C17_RejectedLeavesStore ==
    [][(Idle /\ resp'.status \in {400, 404}) => db' = db]_vars

\* A PATCH with a numeric completed, answered 400, on a row that exists.
C17_Witness ==
    /\ req.method = "PATCH"
    /\ resp.status = 400
    /\ req.body.completed = JsNumber(1)
    /\ \E i \in RowsWithId(db, req.id) : db[i].completed = 0

\* C18: every response to a request whose path is under /api/ carries the
\* cross-origin headers, whatever its status.
C18_Original ==
    req.path \in ApiPaths => resp.cors

\* C19: an OPTIONS request to any path under /api/ is answered with an empty
\* 200 or 204 response that carries the cross-origin headers, and the store
\* is left as it was; the answer is the same whatever the store holds.
C19_OptionsShortCircuits ==
    [][(Idle /\ req'.verb = "OPTIONS" /\ req'.path \in ApiPaths) =>
        /\ resp'.status \in {200, 204}
        /\ resp'.btype = "empty"
        /\ resp'.body = <<>>
        /\ resp'.cors
        /\ db' = db]_vars

\* OPTIONS on the path of a todo while the store holds rows.
C19_Witness ==
    /\ req.verb = "OPTIONS"
    /\ req.path = "/api/todos/:id"
    /\ resp.status = 200
    /\ resp.cors
    /\ Len(db) > 0

C20_WitnessConflict ==
    /\ req.method = "POST"
    /\ resp.status = 500
    /\ HasUsableText(req.body)
    /\ Len(db) > 0

\* C21: no request that fails for its input or for an id without a row
\* reaches error(error); with no storage failure, as under Spec, no
\* response is the one error(error) builds.
C21_Original ==
    resp # ErrorResponse

\* A step taken by a handler that answered `status` to a `method` request.
Answered(method, status) ==
    Idle /\ req'.method = method /\ resp'.status = status

\* C22: a row appears only through a POST answered 201, its completed flag
\* changes only through a PATCH answered 200 for its id, it disappears only
\* through a DELETE answered 204 for its id, and its id, text and createdAt
\* stay as they are while it exists.
C22_RowLifecycle ==
    [][/\ \A id \in RowIds(db') \ RowIds(db) :
              Answered("POST", 201) /\ resp'.body.id = id
       /\ \A id \in RowIds(db) \ RowIds(db') :
              Answered("DELETE", 204) /\ req'.id = id
       /\ \A i \in 1..Len(db), j \in 1..Len(db') :
              db[i].id = db'[j].id =>
                  /\ db'[j].text = db[i].text
                  /\ db'[j].createdAt = db[i].createdAt
                  /\ db'[j].completed # db[i].completed =>
                         Answered("PATCH", 200) /\ req'.id = db[i].id]_vars

\* A list answered on a store that holds a completed row.
C22_Witness ==
    /\ req.method = "GET_ALL"
    /\ resp.status = 200
    /\ Len(db) = 2
    /\ db[1].completed = 1

Listed(verb, path) ==
    \/ path = "/"
    \/ path \in ApiPaths /\ verb = "OPTIONS"
    \/ path = "/api/todos" /\ verb \in {"GET", "POST"}
    \/ path = "/api/todos/:id" /\ verb \in {"GET", "PATCH", "DELETE"}

\* C25: a request whose method and path no route lists is answered 404 with
\* a plain-text body, and the store is left as it was.
C25_UnmatchedIs404 ==
    [][(Idle /\ req'.path \in Paths /\ ~Listed(req'.verb, req'.path)) =>
        /\ resp'.status = 404
        /\ resp'.btype = "text"
        /\ db' = db]_vars

\* A PUT on the collection path while the store holds rows.
C25_Witness ==
    /\ req.verb = "PUT"
    /\ req.path = "/api/todos"
    /\ resp.status = 404
    /\ Len(db) > 0

\* C26: every stored row has completed 0 or 1, and every response body
\* that carries a todo (create, get by id, patch, list) reports completed
\* as that integer.
C26_CompletedIsInteger ==
    /\ \A i \in 1..Len(db) : db[i].completed \in {0, 1}
    /\ resp.btype = "todo" =>
           \E i \in 1..Len(db) : SameAsStored(resp.body, db[i])
    /\ resp.btype = "list" =>
           \A k \in 1..Len(resp.body) :
               \E i \in 1..Len(db) : SameAsStored(resp.body[k], db[i])

\* A list that carries a completed and an open todo.
C26_Witness ==
    /\ req.method = "GET_ALL"
    /\ Len(resp.body) = 2
    /\ resp.body[1].completed = JsNumber(1)
    /\ resp.body[2].completed = JsNumber(0)

\* C27: a POST whose generated id is the id of a stored row is answered 500
\* and leaves every row, and so the row count, as it was.
C27_CollisionIs500 ==
    \A body \in PostBodies, id \in RowIds(db) :
        (~BodyThrows(body) /\ ~InvalidText(body.text)) =>
            LET out == PostHandler(db, body, id, now)
            IN  /\ out.resp.status = 500
                /\ out.db = db

\* A create with a usable text answered 500, the store keeping its two rows.
C27_Witness ==
    /\ PostAnswered(500)
    /\ HasUsableText(req.body)
    /\ Len(db) = 2

\* The number of rows of the table with completed set.
CompletedCount(table) ==
    Cardinality({i \in 1..Len(table) : table[i].completed = 1})

\* C28, step by step: a 201 adds one row, a 204 removes one, no other step
\* changes the row count; a new row has completed clear, a PATCH answered
\* 200 leaves the addressed row with the flag it requested, and no other
\* step changes a flag.  Over any sequence of requests the row count is
\* then the 201s minus the 204s, and the rows with completed set are those
\* whose latest successful PATCH requested true.
C28_CountsFollowRequests ==
    [][/\ Len(db') = Len(db)
                      + (IF Answered("POST", 201) THEN 1 ELSE 0)
                      - (IF Answered("DELETE", 204) THEN 1 ELSE 0)
       /\ \A j \in 1..Len(db') :
              db'[j].completed =
                  IF Answered("PATCH", 200) /\ req'.id = db'[j].id
                  THEN FlagOf(req'.body.completed)
                  ELSE IF \E i \in 1..Len(db) : db[i].id = db'[j].id
                  THEN db[CHOOSE i \in 1..Len(db) : db[i].id = db'[j].id].completed
                  ELSE 0]_vars

\* Three creates and one delete later, a PATCH requesting false on a store
\* whose other row is completed.
C28_Witness ==
    /\ req.method = "PATCH"
    /\ resp.status = 200
    /\ req.body.completed = JsBool(FALSE)
    /\ Cardinality(issued) = 3
    /\ Len(db) = 2
    /\ CompletedCount(db) = 1

\* C24: a restart on a store that holds rows leaves every row as it was,
\* and each row is then answered by GET /api/todos/:id and listed by GET
\* /api/todos.
C24_RestartKeepsRows ==
    [][(Idle /\ req'.method = "RESTART") =>
        /\ db' = db
        /\ \A i \in 1..Len(db) :
               GetByIdHandler(db', db[i].id).resp = JsonResponse(<<db[i]>>, 200)
        /\ \A list \in SelectAllOrdered(db') :
               LET body == GetAllHandler(db', list).resp.body
               IN  \A i \in 1..Len(db) :
                       \E k \in 1..Len(body) : SameAsStored(body[k], db[i])]_vars

\* The server just restarted on a store of two rows, one of them completed.
C24_Witness ==
    /\ req.method = "RESTART"
    /\ Len(db) = 2
    /\ db[2].completed = 1

\* C29: an UPDATE of completed or a DELETE whose id has no row leaves the
\* table as it was, no row changed and none created, and the statement
\* returns: no error is answered.
C29_AbsentIdIsNoOp ==
    [][(/\ req'.method \in {"SQL_UPDATE", "SQL_DELETE"}
        /\ RowsWithId(db, req'.id) = {}) =>
            /\ db' = db
            /\ resp' = NoResponse]_vars

\* A DELETE of an id no row ever had, on a table of two rows, one completed.
C29_Witness ==
    /\ req.method = "SQL_DELETE"
    /\ req.id = UnknownId
    /\ Len(db) = 2
    /\ CompletedCount(db) = 1

\* An UPDATE of a deleted row's id, on a table that still holds a row.
C29_WitnessUpdate ==
    /\ req.method = "SQL_UPDATE"
    /\ req.id \in issued \ RowIds(db)
    /\ Len(db) = 1

\* C30: whatever runs while a PATCH waits, the check and the write of a
\* PATCH or DELETE see one table: a DELETE answered 204 removes a row that
\* was there, and an id that lost its row never has one again, so no second
\* DELETE of it is answered 204; a PATCH answered 200 updates a row that is
\* there when it writes and carries that row, never null.
C30_CheckAndWriteTogether ==
    [][/\ Answered("DELETE", 204) =>
              /\ RowsWithId(db, req'.id) # {}
              /\ RowsWithId(db', req'.id) = {}
       /\ \A id \in issued \ RowIds(db) : id \notin RowIds(db')
       /\ Answered("PATCH", 200) =>
              /\ RowsWithId(db, req'.id) # {}
              /\ resp'.btype = "todo"
              /\ \E i \in RowsWithId(db', req'.id) :
                     SameAsStored(resp'.body, db'[i])]_vars

\* A PATCH that arrived while its row existed and ran after a DELETE took
\* the row: it is answered 404.
C30_Witness ==
    /\ req.method = "PATCH"
    /\ req.existed
    /\ resp.status = 404
    /\ RowsWithId(db, req.id) = {}
    /\ Len(db) > 0

\* C33: GET /api/todos and GET /api/todos/:id leave the store as it was,
\* the same rows with the same fields in the same order, whatever they
\* answer.
C33_GetLeavesStore ==
    [][(Idle /\ req'.method \in {"GET_ALL", "GET"}) => db' = db]_vars

\* A GET of a row that is there, among others, one of them completed.
C33_Witness ==
    /\ req.method = "GET"
    /\ resp.status = 200
    /\ Len(db) = 3
    /\ CompletedCount(db) = 1

\* A GET of an id without a row, answered 404, the store holding rows.
C33_WitnessAbsent ==
    /\ req.method = "GET"
    /\ resp.status = 404
    /\ Len(db) = 2

\* C31: however POST requests overlap, a POST answered 201 appends exactly
\* one row, with an id no row had and the trimmed text of this request, and
\* its body is that row.
C31_PostAnswersOwnRow ==
    [][Answered("POST", 201) =>
        LET row == db'[Len(db')]
        IN  /\ Len(db') = Len(db) + 1
            /\ SubSeq(db', 1, Len(db)) = db
            /\ row.id \notin RowIds(db)
            /\ row.id \in issued' \ issued
            /\ IsTrimOf(row.text, req'.body.text.val)
            /\ resp'.btype = "todo"
            /\ SameAsStored(resp'.body, row)]_vars

\* A POST answered 201 with its own text while a POST with another text,
\* received earlier, still waits for its body; the store holds an older row
\* of that other text.
C31_Witness ==
    /\ PostAnswered(201)
    /\ Len(db) = 2
    /\ resp.body.text # db[1].text
    /\ \E r \in pending : IsTrimOf(db[1].text, r.body.text.val)

\* The status codes of the API.
StatusCodes == {200, 201, 204, 400, 404, 500}

\* C32: every response has one of the six status codes; a handler that
\* waits for its body waits for nothing else, it can go on whenever the
\* server is between requests, whatever the store and the other waiting
\* requests are; a waiting PATCH of an id is eventually followed by an
\* answer to a PATCH of that id; and every response a handler returned is
\* sent, the server going on to the next request.
C32_EveryRequestAnswered ==
    /\ [](~Idle => resp.status \in StatusCodes)
    /\ [](\A r \in pending : Idle => ENABLED (PatchResumes /\ req' = r))
    /\ \A id \in PathIds :
           (\E r \in pending : r.id = id) ~>
               (req.method = "PATCH" /\ req.id = id /\ ~Idle /\ req \notin pending)
    /\ (~Idle) ~> Idle

\* A PATCH received before its row was created and answered 200 after it:
\* it waited while a POST was handled.
C32_Witness ==
    /\ req.method = "PATCH"
    /\ ~req.existed
    /\ resp.status = 200
    /\ pending = {}

=============================================================================
